---------------------------- MODULE Spec2Model ----------------------------
(***************************************************************************)
(* Model of the gesture-driven Christmas-tree scene.                       *)
(*                                                                         *)
(*   Spec      the session: VisionService (initialize / detect), the App   *)
(*             detection loop (detect, the two effects) and the mode the   *)
(*             TreeController hands to every Particle.                     *)
(*   SpecGen   generateTreeData: one loop iteration per step, the random   *)
(*             draws being the inputs.                                     *)
(*   SpecLerp  the Particle useFrame position step.                        *)
(*                                                                         *)
(* Image coordinates are integers in hundredths (0.08 is 8, 0.5 is 50).    *)
(***************************************************************************)
EXTENDS Integers, Sequences, FiniteSets, TLC

VARIABLES
    \* ---- session (src/App.tsx, src/services/visionService.ts) ----
    variant,          \* which TreeController of TreeScene.tsx is mounted (1 or 2)
    handLandmarker,   \* VisionService.handLandmarker: 0 = null, c = created by call c
    lastVideoTime,    \* VisionService.lastVideoTime
    initPc,           \* position of each App init() call
    initResult,       \* how each initialize() call ended
    loading,          \* App state
    cameraPermission, \* App state
    gestureState,     \* App state
    rafPending,       \* a detect callback is scheduled (requestRef holds a live id)
    mounted,          \* the App component is mounted (the session has not ended)
    uncaught,         \* a detect frame step ended by an uncaught TypeError
    frames,           \* number of detect frame steps run so far
    lastReturn,       \* what visionService.detect returned in the latest frame step
    lastNonNull,      \* kind of the latest non-null detector result
    detectorCalls,    \* detectForVideo invocations per video timestamp
    lastTime,         \* video.currentTime of the latest visionService.detect call
    timesMonotone,    \* no visionService.detect call had a smaller time than one before
    \* ---- generateTreeData (src/constants.ts, src/unnamed/part_000, part_001) ----
    gpc,              \* "loop" while the for loop runs, then "done"
    i,                \* loop index
    data,             \* the list being built
    photoIndex,
    lastPhotoIdx,
    lightCount,
    sawChanceOne,     \* lightChance evaluated to 1 or more in some iteration
    photoList,        \* the PHOTOS array of this build
    \* ---- Particle useFrame (src/components/TreeScene.tsx) ----
    element,          \* the ParticleData of the Particle (its data prop)
    generations,      \* how often the TreeController ran generateTreeData
    isUnleashed,      \* the prop of the Particle
    positionRef,      \* live position (one axis) of the Particle
    rotationX,        \* live rotation (about the x axis) of the Particle
    prevPosition,     \* live position before the latest useFrame step
    lastTarget,       \* targetPos of the latest useFrame step
    lastDelta,        \* delta of the latest useFrame step, in 1/TimeDen s
    steps,            \* number of useFrame steps run so far
    \* ---- photo branch of generateTreeData (src/unnamed/part_000) ----
    ppc,                    \* position inside the photo branch
    placedPhotosUnleashed,  \* positions accepted so far
    attempts,               \* attempts of the current while loop
    validPos,               \* validPos of the current while loop
    placements,             \* randomPos of each photo so far, and how it was set
    \* ---- one call of calculateGesture (src/App.tsx) ----
    gLandmarks,             \* the argument
    gResult,                \* what the call returned
    gDone,                  \* the call has returned
    \* ---- the second TreeController and its OrbitControls (TreeScene.tsx) ----
    vGesture,               \* the gestureState prop of the latest render
    azimuth,                \* azimuthal angle of the controls
    polar,                  \* polar angle of the controls
    cameraDist,             \* length of camera.position
    drivers,                \* who wrote the azimuth in the latest frame
    vsteps                  \* number of frames run so far

sessionVars == <<variant, mounted, handLandmarker, lastVideoTime, initPc, initResult, loading,
                 cameraPermission, gestureState, rafPending, uncaught, frames,
                 lastReturn, lastNonNull, detectorCalls, lastTime, timesMonotone>>
genVars == <<gpc, photoList, i, data, photoIndex, lastPhotoIdx, lightCount, sawChanceOne>>
lerpVars == <<element, generations, isUnleashed, positionRef, rotationX, prevPosition,
              lastTarget, lastDelta, steps>>
viewVars == <<vGesture, azimuth, polar, cameraDist, drivers, vsteps>>
gestVars == <<gLandmarks, gResult, gDone>>
placeVars == <<ppc, placedPhotosUnleashed, attempts, validPos, placements>>
vars == <<sessionVars, genVars, lerpVars, placeVars, gestVars, viewVars>>

\* What the actions of one part leave alone.
notSession == <<genVars, lerpVars, placeVars, gestVars, viewVars>>
notGen == <<sessionVars, lerpVars, placeVars, gestVars, viewVars>>
notLerp == <<sessionVars, genVars, placeVars, gestVars, viewVars>>
notPlace == <<sessionVars, genVars, lerpVars, gestVars, viewVars>>
notGest == <<sessionVars, genVars, lerpVars, placeVars, viewVars>>
notView == <<sessionVars, genVars, lerpVars, placeVars, gestVars>>

-----------------------------------------------------------------------------
(* Bounds of the model *)

\* detect frame steps explored per session
MaxFrames == 3
\* video.currentTime ranges over 0..MaxTime
MaxTime == 1
\* App init() calls per session (one per mount of the effect)
MaxInitCalls == 2

\* generateTreeData is checked on a configuration scaled down from the shipped
\* one (900 elements, photos kept 40 indices from both ends and more than 22
\* apart, 40 lights), keeping its order relations: the photo window holds
\* several photos, and the lights fit in the tail closed to photos.
PARTICLE_COUNT == 14
\* the 40 of canSpawnPhoto
PhotoMargin == 3
\* the 22 of canSpawnPhoto
PhotoGap == 2
\* the 40 of maxLights: as in the shipped configuration, as many as the
\* indices closed to photos at the end
maxLights == 3

\* useFrame steps explored for one Particle
MaxSteps == 3
\* the frame time delta ranges over 0..MaxDelta, in 1/TimeDen s
MaxDelta == 3

-----------------------------------------------------------------------------
(* Hand landmarks *)

\* the null a JavaScript function returns
NULL == [none |-> TRUE]

\* App.tsx:23, in hundredths
OpenThreshold == 8

\* A keypoint is [x, y]; a hand is a sequence of keypoints, JavaScript index j
\* being element j + 1.
Has(hand, j) == j + 1 <= Len(hand)
Kp(hand, j) == hand[j + 1]

\* A hand of n keypoints whose thumb tip (4) and index tip (8) are d apart
\* along x, with keypoint 9 at k.
MakeHand(n, d, k) ==
    [j \in 1..n |->
        IF j = 5 THEN [x |-> 50, y |-> 50]
        ELSE IF j = 9 THEN [x |-> 50 + d, y |-> 50]
        ELSE IF j = 10 THEN k
        ELSE [x |-> 40, y |-> 60]]

\* Thumb-to-index distances: below, at and above the threshold.
TipDistances == {5, 8, 12}
Knuckles == {[x |-> 20, y |-> 50], [x |-> 80, y |-> 30]}
\* Keypoint counts of malformed hands: keypoint 4 missing, keypoint 9 missing,
\* keypoints 4, 8, 9 present but not all 21.
ShortCounts == {3, 9, 10}

WellFormedHands == {MakeHand(21, d, k) : d \in TipDistances, k \in Knuckles}
MalformedHands == {MakeHand(n, 12, [x |-> 20, y |-> 50]) : n \in ShortCounts}
Hands == WellFormedHands \cup MalformedHands

\* What detectForVideo can return: zero hands or one hand (numHands: 1).
NoHands == [landmarks |-> <<>>]
DetectorResults == {NoHands} \cup {[landmarks |-> <<h>>] : h \in Hands}
\* detectForVideo raises an exception in place of a result.
DetectorThrew == [threw |-> TRUE]
\* How a call of detectForVideo can end.
DetectorOutcomes == DetectorResults \cup {DetectorThrew}

Times == 0..MaxTime


-----------------------------------------------------------------------------
(* App.tsx: calculateGesture and drawHandSkeleton *)

\* App.tsx:80-84
InitialGesture == [isDetected |-> FALSE, isOpen |-> FALSE, position |-> [x |-> 0, y |-> 0]]

\* A comparison that takes the threshold itself for open.
IsOpenHandInclusive(hand) ==
    LET dx == Kp(hand, 4).x - Kp(hand, 8).x
        dy == Kp(hand, 4).y - Kp(hand, 8).y
    IN  dx * dx + dy * dy >= OpenThreshold * OpenThreshold
\* distance > 0.08 on the x, y of keypoints 4 and 8, compared on the squares.
IsOpenHand(hand) ==
    LET dx == Kp(hand, 4).x - Kp(hand, 8).x
        dy == Kp(hand, 4).y - Kp(hand, 8).y
    IN  dx * dx + dy * dy > OpenThreshold * OpenThreshold

\* Reading .x of hand[4], hand[8] or hand[9] when the element is undefined is a
\* TypeError.
CalculateGestureThrows(landmarks) ==
    /\ Len(landmarks) > 0
    /\ \/ ~Has(landmarks[1], 4)
       \/ ~Has(landmarks[1], 8)
       \/ ~Has(landmarks[1], 9)

calculateGesture(landmarks) ==
    IF Len(landmarks) = 0
    THEN [isOpen |-> FALSE, x |-> 0, y |-> 0]
    ELSE LET hand == landmarks[1]
         IN  [isOpen |-> IsOpenHand(hand),
              x |-> (Kp(hand, 9).x - 50) * 2,
              y |-> (Kp(hand, 9).y - 50) * 2]

\* The connections name every index 0..20; p1.x / p2.x of a missing keypoint is
\* a TypeError.
DrawHandSkeletonThrows(landmarks) ==
    /\ Len(landmarks) > 0
    /\ \E j \in 0..20 : ~Has(landmarks[1], j)

-----------------------------------------------------------------------------
(* visionService.ts: VisionService *)

InitPcs == {"idle", "awaitFileset", "awaitCreate", "resolved", "threw", "done"}
InitCalls == 1..MaxInitCalls

\* A rejected await inside initialize(), with no catch around it: the promise
\* initialize() returned rejects.
InitializeNoCatch == "threw"

\* visionService.ts:25-27: the catch logs and initialize() returns normally.
InitializeCatch == "resolved"

\* detect that never records the time it processed.
VisionServiceDetectForgetsTime(t, res) ==
    IF handLandmarker = 0
    THEN [results |-> NULL, lastVideoTime |-> lastVideoTime, invoked |-> FALSE]
    ELSE IF t # lastVideoTime
    THEN [results |-> res, lastVideoTime |-> lastVideoTime, invoked |-> TRUE]
    ELSE [results |-> NULL, lastVideoTime |-> lastVideoTime, invoked |-> FALSE]

\* visionService.ts:30-39.  res is what detectForVideo returns if it is invoked.
VisionServiceDetect(t, res) ==
    IF handLandmarker = 0
    THEN [results |-> NULL, lastVideoTime |-> lastVideoTime, invoked |-> FALSE]
    ELSE IF t # lastVideoTime
    THEN [results |-> res, lastVideoTime |-> t, invoked |-> TRUE]
    ELSE [results |-> NULL, lastVideoTime |-> lastVideoTime, invoked |-> FALSE]

-----------------------------------------------------------------------------
(* App.tsx: the state update of a detect frame step *)

\* A frame without a new result resets the signal.
GestureAfterZeroing(prev, results) ==
    IF results = NULL
    THEN InitialGesture
    ELSE IF Len(results.landmarks) > 0
    THEN LET g == calculateGesture(results.landmarks)
         IN  [isDetected |-> TRUE, isOpen |-> g.isOpen, position |-> [x |-> g.x, y |-> g.y]]
    ELSE [prev EXCEPT !.isDetected = FALSE]

\* App.tsx:125-136
GestureAfter(prev, results) ==
    IF results = NULL
    THEN prev
    ELSE IF Len(results.landmarks) > 0
    THEN LET g == calculateGesture(results.landmarks)
         IN  [isDetected |-> TRUE, isOpen |-> g.isOpen, position |-> [x |-> g.x, y |-> g.y]]
    ELSE [prev EXCEPT !.isDetected = FALSE]

\* An effect that schedules detect as soon as the camera is there.
EffectRafIgnoresLoading(newLoading, newCamera) ==
    IF newLoading = loading /\ newCamera = cameraPermission
    THEN rafPending
    ELSE newCamera

\* App.tsx:141-146: the detection-loop effect runs again when loading or
\* cameraPermission changed: its cleanup cancels the pending callback, then it
\* schedules detect if both conditions hold.
EffectRaf(newLoading, newCamera) ==
    IF newLoading = loading /\ newCamera = cameraPermission
    THEN rafPending
    ELSE ~newLoading /\ newCamera

\* MediaPipe hands have 21 keypoints.
HandKeypoints == 21

ResultKind(results) ==
    IF results = NULL THEN "null"
    ELSE IF results = DetectorThrew THEN "threw"
    ELSE IF Len(results.landmarks) = 0 THEN "zero"
    ELSE IF Len(results.landmarks[1]) < HandKeypoints THEN "malformed"
    ELSE "hand"

-----------------------------------------------------------------------------
(* The session: initial state and actions *)

SessionInit ==
    /\ variant \in {1, 2}
    /\ handLandmarker = 0
    /\ lastVideoTime = -1
    /\ initPc = [c \in InitCalls |-> "idle"]
    /\ initResult = [c \in InitCalls |-> "none"]
    /\ loading = TRUE
    /\ cameraPermission = FALSE
    /\ gestureState = InitialGesture
    /\ rafPending = FALSE
    /\ mounted = TRUE
    /\ uncaught = FALSE
    /\ frames = 0
    /\ lastReturn = "notCalled"
    /\ lastNonNull = "none"
    /\ detectorCalls = [t \in Times |-> 0]
    /\ lastTime = -1
    /\ timesMonotone = TRUE

\* App.tsx:89-95 calls init(); visionService.ts:9-12 runs up to the first await.
InitializeStart(c) ==
    /\ mounted
    /\ initPc[c] = "idle"
    /\ \A b \in InitCalls : b < c => initPc[b] # "idle"
    /\ IF handLandmarker # 0
       THEN /\ initPc' = [initPc EXCEPT ![c] = "resolved"]
            /\ initResult' = [initResult EXCEPT ![c] = "skipped"]
       ELSE /\ initPc' = [initPc EXCEPT ![c] = "awaitFileset"]
            /\ UNCHANGED initResult
    /\ UNCHANGED <<variant, mounted, handLandmarker, lastVideoTime, loading, cameraPermission,
                   gestureState, rafPending, uncaught, frames, lastReturn,
                   lastNonNull, detectorCalls, lastTime, timesMonotone, notSession>>

\* visionService.ts:12-14: FilesetResolver.forVisionTasks settles.
FilesetSettles(c, ok) ==
    /\ initPc[c] = "awaitFileset"
    /\ IF ok
       THEN /\ initPc' = [initPc EXCEPT ![c] = "awaitCreate"]
            /\ UNCHANGED initResult
       ELSE /\ initPc' = [initPc EXCEPT ![c] = InitializeCatch]
            /\ initResult' = [initResult EXCEPT ![c] = "failed"]
    /\ UNCHANGED <<variant, mounted, handLandmarker, lastVideoTime, loading, cameraPermission,
                   gestureState, rafPending, uncaught, frames, lastReturn,
                   lastNonNull, detectorCalls, lastTime, timesMonotone, notSession>>

\* visionService.ts:16-24: HandLandmarker.createFromOptions settles; on success
\* the new landmarker is stored.
CreateSettles(c, ok) ==
    /\ initPc[c] = "awaitCreate"
    /\ IF ok
       THEN /\ handLandmarker' = c
            /\ initPc' = [initPc EXCEPT ![c] = "resolved"]
            /\ initResult' = [initResult EXCEPT ![c] = "created"]
       ELSE /\ initPc' = [initPc EXCEPT ![c] = InitializeCatch]
            /\ initResult' = [initResult EXCEPT ![c] = "failed"]
            /\ UNCHANGED handLandmarker
    /\ UNCHANGED <<variant, mounted, lastVideoTime, loading, cameraPermission, gestureState,
                   rafPending, uncaught, frames, lastReturn, lastNonNull,
                   detectorCalls, lastTime, timesMonotone, notSession>>

\* App.tsx:92: after the await, setLoading(false); the detection-loop effect
\* follows the render.
InitContinues(c) ==
    /\ initPc[c] = "resolved"
    /\ initPc' = [initPc EXCEPT ![c] = "done"]
    /\ IF mounted
       THEN /\ loading' = FALSE
            /\ rafPending' = EffectRaf(FALSE, cameraPermission)
       ELSE \* a state update of an unmounted component is dropped
            UNCHANGED <<loading, rafPending>>
    /\ UNCHANGED <<variant, mounted, handLandmarker, lastVideoTime, initResult, cameraPermission,
                   gestureState, uncaught, frames, lastReturn, lastNonNull,
                   detectorCalls, lastTime, timesMonotone, notSession>>

\* App.tsx:183: onUserMedia sets cameraPermission; the detection-loop effect
\* follows the render.
OnUserMedia ==
    /\ mounted
    /\ ~cameraPermission
    /\ cameraPermission' = TRUE
    /\ rafPending' = EffectRaf(loading, TRUE)
    /\ UNCHANGED <<variant, mounted, handLandmarker, lastVideoTime, initPc, initResult, loading,
                   gestureState, uncaught, frames, lastReturn, lastNonNull,
                   detectorCalls, lastTime, timesMonotone, notSession>>

\* App.tsx:98-139: one run of the detect callback.  ready: the video element is
\* there with readyState 4; t: video.currentTime; res: what detectForVideo
\* returns if invoked; ctx: the overlay canvas and its 2d context are there.
Detect(ready, t, res, ctx) ==
    /\ rafPending
    /\ frames < MaxFrames
    /\ LET r == IF ready
                THEN VisionServiceDetect(t, res)
                ELSE [results |-> NULL, lastVideoTime |-> lastVideoTime, invoked |-> FALSE]
           results == r.results
           \* nothing in visionService.detect or in detect catches
           throws == IF results = NULL THEN FALSE
                     ELSE IF results = DetectorThrew THEN TRUE
                     ELSE \/ ctx /\ DrawHandSkeletonThrows(results.landmarks)
                          \/ CalculateGestureThrows(results.landmarks)
       IN  /\ lastVideoTime' = r.lastVideoTime
           /\ detectorCalls' = IF r.invoked
                               THEN [detectorCalls EXCEPT ![t] = @ + 1]
                               ELSE detectorCalls
           /\ lastReturn' = IF ready THEN ResultKind(results) ELSE "notCalled"
           /\ lastTime' = IF ready THEN t ELSE lastTime
           /\ timesMonotone' = (timesMonotone /\ (ready => t >= lastTime))
           /\ lastNonNull' = IF results # NULL /\ results # DetectorThrew
                             THEN ResultKind(results) ELSE lastNonNull
           /\ IF throws
              THEN /\ uncaught' = TRUE
                   /\ rafPending' = FALSE
                   /\ UNCHANGED gestureState
              ELSE /\ gestureState' = GestureAfter(gestureState, results)
                   /\ rafPending' = TRUE
                   /\ UNCHANGED uncaught
    /\ frames' = frames + 1
    /\ UNCHANGED <<variant, mounted, handLandmarker, initPc, initResult, loading, cameraPermission,
                   notSession>>

\* A cleanup that leaves the scheduled callback in place.
CleanupLeavesPending == rafPending
\* App.tsx:145: cancelAnimationFrame(requestRef.current); requestRef holds the
\* id of the one callback that can be pending.
CleanupRafPending == FALSE

\* App.tsx:145: the session ends: React unmounts App and runs the cleanup of
\* the detection-loop effect.
Unmount ==
    /\ mounted
    /\ mounted' = FALSE
    /\ rafPending' = CleanupRafPending
    /\ UNCHANGED <<variant, handLandmarker, lastVideoTime, initPc, initResult, loading,
                   cameraPermission, gestureState, uncaught, frames, lastReturn,
                   lastNonNull, detectorCalls, lastTime, timesMonotone, notSession>>

-----------------------------------------------------------------------------
(* TreeScene.tsx: the isUnleashed prop the TreeController gives every Particle *)

\* TreeScene.tsx:206 (first TreeController)
IsUnleashedFirst == gestureState.isDetected /\ gestureState.isOpen
\* TreeScene.tsx:493 (second TreeController)
IsUnleashedSecond == gestureState.isOpen

IsUnleashedProp == IF variant = 1 THEN IsUnleashedFirst ELSE IsUnleashedSecond

-----------------------------------------------------------------------------
(* constants.ts, unnamed/part_000, unnamed/part_001: generateTreeData.  The   *)
(* three files assign id, type and photoUrl in the same way.                  *)

\* constants.ts:21-27
PHOTOS == <<"/photos/1.jpg", "/photos/2.png", "/photos/3.jpg", "/photos/4.jpg">>
\* constants.ts:8-27: the array is the one setting of a build; the builds the
\* model runs have the shipped array, its first two entries, or none.
PhotoLists == {PHOTOS, SubSeq(PHOTOS, 1, 2), <<>>}

\* Math.random() is a multiple of 1/RandDen in [0, 1).
RandDen == 1000
\* 0, one half, and the largest value below 1: every outcome of a comparison
\* Math.random() < p that some draw can produce is produced by one of these.
RandomDraws == {0, RandDen \div 2, RandDen - 1}
\* photoChance = 0.07
PhotoChance == 70

\* A loop that runs once too often.
LoopContinuesInclusive(idx) == idx <= PARTICLE_COUNT
\* constants.ts:38: i < PARTICLE_COUNT
LoopContinues(idx) == idx < PARTICLE_COUNT

\* Eligibility without the distance to the last photo.
canSpawnPhotoNoGap(idx, last) ==
    (idx > PhotoMargin) /\ (idx < PARTICLE_COUNT - PhotoMargin)
\* constants.ts:67
canSpawnPhoto(idx, last) ==
    (idx > PhotoMargin) /\ (idx < PARTICLE_COUNT - PhotoMargin) /\ (idx - last > PhotoGap)

\* A chance that does not grow as the lights still to place run short of
\* indices.
LightChanceNumFixed(lc) == IF lc < maxLights THEN 1 ELSE 0
\* constants.ts:70: lightChance = (maxLights - lightCount) / (PARTICLE_COUNT - i),
\* as numerator and denominator.
LightChanceNum(lc) == maxLights - lc
LightChanceDen(idx) == PARTICLE_COUNT - idx

\* A fixed rate: the lights placed so far are not counted.
IsLightUncounted(r, idx, lc) == r * LightChanceDen(idx) < maxLights * RandDen
\* constants.ts:99: Math.random() < lightChance && lightCount < maxLights
IsLight(r, idx, lc) ==
    /\ r * LightChanceDen(idx) < LightChanceNum(lc) * RandDen
    /\ lc < maxLights

\* constants.ts:72
IsPhoto(r, idx, last) == canSpawnPhoto(idx, last) /\ r < PhotoChance

\* An index that is never advanced.
PhotoIndexStuck(p) == p
\* constants.ts:76: photoIndex++
PhotoIndexAfter(p) == p + 1

GenInit ==
    /\ gpc = "loop"
    /\ photoList \in PhotoLists
    /\ i = 0
    /\ data = <<>>
    /\ photoIndex = 0
    /\ lastPhotoIdx = -100
    /\ lightCount = 0
    /\ sawChanceOne = FALSE

\* One iteration of the for loop; rPhoto and rLight are the Math.random()
\* values of the photo and the light test.
GenerateIteration(rPhoto, rLight) ==
    /\ gpc = "loop"
    /\ LoopContinues(i)
    /\ sawChanceOne' = (sawChanceOne \/ LightChanceNum(lightCount) >= LightChanceDen(i))
    /\ IF IsPhoto(rPhoto, i, lastPhotoIdx)
       THEN /\ data' = Append(data,
                   [id |-> i, type |-> "photo",
                    photoUrl |-> IF Len(photoList) > 0
                                 THEN photoList[(photoIndex % Len(photoList)) + 1]
                                 ELSE "undefined"])
            /\ photoIndex' = IF Len(photoList) > 0
                             THEN PhotoIndexAfter(photoIndex) ELSE photoIndex
            /\ lastPhotoIdx' = i
            /\ UNCHANGED lightCount
       ELSE IF IsLight(rLight, i, lightCount)
       THEN /\ data' = Append(data, [id |-> i, type |-> "light", photoUrl |-> "undefined"])
            /\ lightCount' = lightCount + 1
            /\ UNCHANGED <<photoIndex, lastPhotoIdx>>
       ELSE /\ data' = Append(data, [id |-> i, type |-> "ornament", photoUrl |-> "undefined"])
            /\ UNCHANGED <<photoIndex, lastPhotoIdx, lightCount>>
    /\ i' = i + 1
    /\ UNCHANGED <<gpc, photoList, notGen>>

\* The loop condition fails: return data.
GenerateReturn ==
    /\ gpc = "loop"
    /\ ~LoopContinues(i)
    /\ gpc' = "done"
    /\ UNCHANGED <<photoList, i, data, photoIndex, lastPhotoIdx, lightCount,
                   sawChanceOne, notGen>>

-----------------------------------------------------------------------------
(* TreeScene.tsx: what Particle renders for an element *)

\* TreeScene.tsx:402-450: the photo frame needs a truthy data.photoUrl; a
\* light is a white sphere; everything else is an ornament sphere.
RenderedAs(el) ==
    IF el.type = "photo" /\ el.photoUrl # "undefined" THEN "photoFrame"
    ELSE IF el.type = "light" THEN "lightSphere"
    ELSE "ornamentSphere"

-----------------------------------------------------------------------------
(* TreeScene.tsx: the position step of Particle useFrame, on one axis *)

\* Frame times are multiples of 1/TimeDen second.
TimeDen == 6
\* TreeScene.tsx:370: delta * 3
LerpRate == 3

RECURSIVE Pow(_, _)
Pow(b, e) == IF e = 0 THEN 1 ELSE b * Pow(b, e - 1)

\* Positions are integers in a unit fine enough for MaxSteps lerp steps to be
\* exact.
PosUnit == Pow(TimeDen, MaxSteps)
\* data.initialPos and data.randomPos of the element
initialPos == 0
randomPos == 4 * PosUnit

\* lerp with the factor clamped to [0, 1].
LerpClamped(a, b, num, den) ==
    IF num <= 0 THEN a
    ELSE IF num >= den THEN b
    ELSE a + ((b - a) * num) \div den

\* An assignment of the target in place of the interpolation.
LerpAssignsTarget(a, b, num, den) == b
\* three.js Vector3.lerp(v, alpha): this += (v - this) * alpha, alpha = num/den.
Lerp(a, b, num, den) == a + ((b - a) * num) \div den

\* The elements a Particle is given: one of each kind, with the positions
\* above.
Elements ==
    {[id |-> 0, type |-> t, initialPos |-> initialPos, randomPos |-> randomPos,
      scale |-> 1, color |-> "#FFD700",
      photoUrl |-> IF t = "photo" THEN PHOTOS[1] ELSE "undefined"] :
        t \in {"ornament", "light", "photo"}}

\* TreeScene.tsx:367
TargetPos(unleashed) == IF unleashed THEN element.randomPos ELSE element.initialPos

\* Angles are integers, 2 * PosUnit to the radian.
\* TreeScene.tsx:382: delta * 5
SlerpRate == 5
\* TreeScene.tsx:385: delta * 0.5, as one half
TumbleDivisor == 2
\* TreeScene.tsx:391: delta * 4
PhotoReturnRate == 4
\* TreeScene.tsx:395: delta * 3
OrnamentReturnRate == 3
\* TreeScene.tsx:352-358: the x rotation of a photo on the tree
InitialRotationX == 0
\* TreeScene.tsx:377-379: the x rotation that faces the camera
CameraFacingX == 2 * PosUnit

\* TreeScene.tsx:373-398: the rotation after a frame of d/TimeDen seconds.  A
\* slerp between rotations about one axis is the lerp of the angle.
RotationAfterFrame(rot, d) ==
    IF isUnleashed
    THEN IF element.type = "photo"
         THEN Lerp(rot, CameraFacingX, d * SlerpRate, TimeDen)
         ELSE rot + (d * 2 * PosUnit) \div (TimeDen * TumbleDivisor)
    ELSE IF element.type = "photo"
         THEN Lerp(rot, InitialRotationX, d * PhotoReturnRate, TimeDen)
         ELSE Lerp(rot, 0, d * OrnamentReturnRate, TimeDen)

\* A live position that is the element's own initialPos vector: the lerp
\* writes into the element.
ElementAliased(newPosition) == [element EXCEPT !.initialPos = newPosition]
\* TreeScene.tsx:348: positionRef holds a clone of data.initialPos, and lerp
\* writes only into this; data is read, never assigned.
ElementAfterFrame(newPosition) == element

\* TreeScene.tsx:454: useMemo(() => generateTreeData(), []): a later render
\* of the TreeController returns the list of the first one.
GenerationsAfterRender(n) == n

LerpInit ==
    /\ element \in Elements
    /\ generations = 1
    /\ isUnleashed \in BOOLEAN
    /\ positionRef = element.initialPos
    /\ rotationX = 0
    /\ prevPosition = element.initialPos
    /\ lastTarget = element.initialPos
    /\ lastDelta = 0
    /\ steps = 0

\* TreeScene.tsx:364-398: one frame of the Particle, delta = d/TimeDen seconds.
UseFrame(d) ==
    /\ steps < MaxSteps
    /\ prevPosition' = positionRef
    /\ lastTarget' = TargetPos(isUnleashed)
    /\ lastDelta' = d
    /\ positionRef' = Lerp(positionRef, TargetPos(isUnleashed), d * LerpRate, TimeDen)
    /\ element' = ElementAfterFrame(positionRef')
    /\ rotationX' = RotationAfterFrame(rotationX, d)
    /\ steps' = steps + 1
    /\ UNCHANGED <<generations, isUnleashed, notLerp>>

\* The TreeController renders again with another mode.
Rerender(unleashed) ==
    /\ unleashed # isUnleashed
    /\ isUnleashed' = unleashed
    /\ generations' = GenerationsAfterRender(generations)
    /\ UNCHANGED <<element, positionRef, rotationX, prevPosition, lastTarget, lastDelta,
                   steps, notLerp>>

-----------------------------------------------------------------------------
(* src/unnamed/part_000: the unleashed position of the photos *)

\* The number of photos one run of generateTreeData places.
MaxPhotos == 3
\* part_000:35
MIN_PHOTO_DIST == 3
\* part_000:91: attempts < 50
MaxAttempts == 50
\* part_000:123: the radius of the fallback ring
FallbackRadius == 18

Vec(x, y, z) == [x |-> x, y |-> y, z |-> z]

\* part_000:92-107: candidates on the ring, radius in [15, 20), height in
\* [-3, 3): three on the axis theta = 0, two, one and three units apart, and one
\* far from them at theta = pi/2.
Candidates == {Vec(15, 0, 0), Vec(17, 0, 0), Vec(18, 0, 0), Vec(0, 2, 16)}

\* part_000:122-123: the fallback positions for theta = 0 and theta = pi.
FallbackPositions == {Vec(FallbackRadius, 0, 0), Vec(0 - FallbackRadius, 0, 0)}

\* The square of Vector3.distanceTo.
DistSq(p, q) ==
    (p.x - q.x) * (p.x - q.x) + (p.y - q.y) * (p.y - q.y) + (p.z - q.z) * (p.z - q.z)

\* A collision test that never finds one.
CollisionNever(c, placed) == FALSE
\* part_000:110-116: candidate.distanceTo(p) < MIN_PHOTO_DIST for some placed p
Collision(c, placed) ==
    \E k \in 1..Len(placed) : DistSq(c, placed[k]) < MIN_PHOTO_DIST * MIN_PHOTO_DIST

\* A loop without the cap on the attempts.
WhileContinuesUncapped(valid, n) == ~valid
\* part_000:91: while (!validPos && attempts < 50)
WhileContinues(valid, n) == ~valid /\ n < MaxAttempts

PlaceInit ==
    /\ ppc = "for"
    /\ placedPhotosUnleashed = <<>>
    /\ attempts = 0
    /\ validPos = FALSE
    /\ placements = <<>>

\* part_000:72-89: an iteration of the for loop takes the photo branch.
PhotoBranch ==
    /\ ppc = "for"
    /\ Len(placements) < MaxPhotos
    /\ ppc' = "while"
    /\ validPos' = FALSE
    /\ attempts' = 0
    /\ UNCHANGED <<placedPhotosUnleashed, placements, notPlace>>

\* part_000:91-119: one pass of the while loop with the candidate c.
Attempt(c) ==
    /\ ppc = "while"
    /\ WhileContinues(validPos, attempts)
    /\ IF ~Collision(c, placedPhotosUnleashed)
       THEN /\ placements' = Append(placements, [randomPos |-> c, accepted |-> TRUE])
            /\ placedPhotosUnleashed' = Append(placedPhotosUnleashed, c)
            /\ validPos' = TRUE
       ELSE UNCHANGED <<placements, placedPhotosUnleashed, validPos>>
    /\ attempts' = attempts + 1
    /\ UNCHANGED <<ppc, notPlace>>

\* part_000:91, 121-124: the while loop ends; without a valid position the
\* photo gets the fallback position f.
AfterWhile(f) ==
    /\ ppc = "while"
    /\ ~WhileContinues(validPos, attempts)
    /\ placements' = IF ~validPos
                     THEN Append(placements, [randomPos |-> f, accepted |-> FALSE])
                     ELSE placements
    /\ ppc' = "for"
    /\ UNCHANGED <<placedPhotosUnleashed, attempts, validPos, notPlace>>

\* part_000:37, 135-: the for loop ends and generateTreeData returns.
PlaceReturn ==
    /\ ppc = "for"
    /\ ppc' = "done"
    /\ UNCHANGED <<placedPhotosUnleashed, attempts, validPos, placements, notPlace>>

-----------------------------------------------------------------------------
(* App.tsx: one call of calculateGesture *)

\* A hand of 21 keypoints with the thumb tip (4) at the centre of the image
\* and the index tip (8) at the offset (dx, dy, dz) from it, keypoint 9 at k.
MakeHandAt(dx, dy, dz, k) ==
    [j \in 1..HandKeypoints |->
        IF j = 5 THEN [x |-> 50, y |-> 50, z |-> 0]
        ELSE IF j = 9 THEN [x |-> 50 + dx, y |-> 50 + dy, z |-> dz]
        ELSE IF j = 10 THEN [x |-> k.x, y |-> k.y, z |-> 0]
        ELSE [x |-> 40, y |-> 60, z |-> 0]]

\* Offsets of the index tip, in hundredths: in the image plane the distances
\* 0, 5, 8 (the threshold, along an axis), sqrt(61), sqrt(89), 9, 10, ..., and
\* a depth of 0 or 40.
TipOffsetsX == {-8, 0, 5, 8, 9}
TipOffsetsY == {-8, 0, 6, 8}
TipOffsetsZ == {0, 40}

GestureArguments ==
    {<<>>} \cup {<<MakeHandAt(dx, dy, dz, k)>> :
                    dx \in TipOffsetsX, dy \in TipOffsetsY, dz \in TipOffsetsZ,
                    k \in Knuckles}

GestInit ==
    /\ gLandmarks \in GestureArguments
    /\ gResult = calculateGesture(<<>>)
    /\ gDone = FALSE

\* App.tsx:8-31
CalculateGestureCall ==
    /\ ~gDone
    /\ gResult' = calculateGesture(gLandmarks)
    /\ gDone' = TRUE
    /\ UNCHANGED <<gLandmarks, notGest>>

-----------------------------------------------------------------------------
(* TreeScene.tsx: the second TreeController's useFrame and its OrbitControls *)

\* Frame times are multiples of 1/TimeDen second and the rates are halves, so
\* the factors are multiples of 1/ViewDen.
ViewDen == 2 * TimeDen
\* Angles are integers, 200 * ViewUnit to the radian, and distances are
\* integers, ViewUnit to the length unit: fine enough for MaxSteps frames to
\* be exact.
ViewUnit == Pow(ViewDen, MaxSteps)

\* TreeScene.tsx:468: delta * 1.5, in halves
ZoomRate == 3
\* TreeScene.tsx:477: delta * 2, in halves
OrbitRate == 4
\* TreeScene.tsx:466
UnleashedDist == 45
AssembledDist == 32
\* TreeScene.tsx:473: Math.PI / 2, in 1/200 radian
HalfPi == 314
\* TreeScene.tsx:503: Math.PI / 1.5, in 1/200 radian
MaxPolarAngle == 419
\* TreeScene.tsx:504: Math.PI / 4, in 1/200 radian
MinPolarAngle == 157

\* TreeScene.tsx:472: -gestureState.position.x * 1.5, position in hundredths
TargetAzimuth(g) == (0 - g.position.x) * 3 * (ViewUnit \div 2)
\* TreeScene.tsx:473: gestureState.position.y * 0.5 + Math.PI / 2
TargetPolar(g) == g.position.y * ViewUnit + HalfPi * ViewUnit

\* TreeScene.tsx:503-504: the controls keep the polar angle in their range.
ClampPolar(a) ==
    IF a < MinPolarAngle * ViewUnit THEN MinPolarAngle * ViewUnit
    ELSE IF a > MaxPolarAngle * ViewUnit THEN MaxPolarAngle * ViewUnit
    ELSE a

\* TreeScene.tsx:507: autoRotateSpeed; what one update of the controls takes
\* off the azimuth when autoRotate is on.
AutoRotateStep == ViewUnit

\* Controls that rotate by themselves whether a hand is detected or not.
AutoRotateAlways(g) == TRUE
\* TreeScene.tsx:506: autoRotate={!gestureState.isDetected}
AutoRotate(g) == ~g.isDetected

\* The gesture states the TreeController is rendered with.
ViewGestures ==
    {InitialGesture,
     [isDetected |-> TRUE, isOpen |-> TRUE, position |-> [x |-> -60, y |-> 0]],
     [isDetected |-> TRUE, isOpen |-> FALSE, position |-> [x |-> 60, y |-> -40]],
     [isDetected |-> FALSE, isOpen |-> TRUE, position |-> [x |-> 60, y |-> -40]]}

\* TreeScene.tsx:517: camera position [0, 0, 32]: azimuth 0, polar pi/2.
ViewInit ==
    /\ vGesture = InitialGesture
    /\ azimuth = 0
    /\ polar = HalfPi * ViewUnit
    /\ cameraDist = AssembledDist * ViewUnit
    /\ drivers = {}
    /\ vsteps = 0

\* One frame of d/TimeDen seconds: the controls update (auto-rotate), then
\* TreeScene.tsx:457-483 runs.
ViewFrame(d) ==
    /\ vsteps < MaxSteps
    /\ cameraDist' = Lerp(cameraDist,
                          IF vGesture.isOpen THEN UnleashedDist * ViewUnit
                                             ELSE AssembledDist * ViewUnit,
                          d * ZoomRate, ViewDen)
    /\ LET rotated == IF AutoRotate(vGesture) THEN azimuth - AutoRotateStep ELSE azimuth
       IN  IF vGesture.isDetected
           THEN /\ azimuth' = Lerp(rotated, TargetAzimuth(vGesture), d * OrbitRate, ViewDen)
                /\ polar' = ClampPolar(Lerp(polar, TargetPolar(vGesture), d * OrbitRate, ViewDen))
           ELSE /\ azimuth' = rotated
                /\ UNCHANGED polar
    /\ drivers' = (IF AutoRotate(vGesture) THEN {"autoRotate"} ELSE {})
                     \cup (IF vGesture.isDetected THEN {"controller"} ELSE {})
    /\ vsteps' = vsteps + 1
    /\ UNCHANGED <<vGesture, notView>>

\* TreeScene.tsx:453: App renders the TreeController with another gestureState.
ViewRerender(g) ==
    /\ g # vGesture
    /\ vGesture' = g
    /\ UNCHANGED <<azimuth, polar, cameraDist, drivers, vsteps, notView>>

\* The other parts at rest.
ViewIdle ==
    /\ vGesture = InitialGesture /\ azimuth = 0 /\ polar = 0 /\ cameraDist = 0
    /\ drivers = {} /\ vsteps = 0
GestIdle == gLandmarks = <<>> /\ gResult = calculateGesture(<<>>) /\ gDone = FALSE
PlaceIdle ==
    /\ ppc = "idle" /\ placedPhotosUnleashed = <<>> /\ attempts = 0
    /\ validPos = FALSE /\ placements = <<>>
GenIdle ==
    /\ gpc = "idle" /\ photoList = PHOTOS /\ i = 0 /\ data = <<>> /\ photoIndex = 0
    /\ lastPhotoIdx = 0 /\ lightCount = 0 /\ sawChanceOne = FALSE
LerpIdle ==
    /\ element \in {e \in Elements : e.type = "ornament"} /\ generations = 0
    /\ isUnleashed = FALSE /\ positionRef = 0 /\ rotationX = 0 /\ prevPosition = 0
    /\ lastTarget = 0 /\ lastDelta = 0 /\ steps = 0

Init == SessionInit /\ GenIdle /\ LerpIdle /\ PlaceIdle /\ GestIdle /\ ViewIdle

Next ==
    \/ \E c \in InitCalls : InitializeStart(c)
    \/ \E c \in InitCalls, ok \in BOOLEAN : FilesetSettles(c, ok)
    \/ \E c \in InitCalls, ok \in BOOLEAN : CreateSettles(c, ok)
    \/ \E c \in InitCalls : InitContinues(c)
    \/ OnUserMedia
    \/ Unmount
    \/ \E ready \in BOOLEAN :
          \* inputs that the frame step never reads, or that change nothing
          \* it does to the state, are held at one value
          \E t \in IF ready THEN Times ELSE {0} :
             \E res \in IF ready /\ handLandmarker # 0 /\ t # lastVideoTime
                        THEN DetectorOutcomes ELSE {NoHands} :
                \E ctx \in IF ResultKind(res) = "malformed" THEN BOOLEAN ELSE {TRUE} :
                   Detect(ready, t, res, ctx)

Spec == Init /\ [][Next]_vars

\* The session before anything happened, with the second TreeController.
SessionIdle == SessionInit /\ variant = 2

InitGen == GenInit /\ SessionIdle /\ LerpIdle /\ PlaceIdle /\ GestIdle /\ ViewIdle

NextGen ==
    \/ \E rPhoto \in RandomDraws, rLight \in RandomDraws : GenerateIteration(rPhoto, rLight)
    \/ GenerateReturn

SpecGen == InitGen /\ [][NextGen]_vars

InitLerp == LerpInit /\ SessionIdle /\ GenIdle /\ PlaceIdle /\ GestIdle /\ ViewIdle

NextLerp ==
    \/ \E d \in 0..MaxDelta : UseFrame(d)
    \/ \E unleashed \in BOOLEAN : Rerender(unleashed)

SpecLerp == InitLerp /\ [][NextLerp]_vars

InitPlace == PlaceInit /\ SessionIdle /\ GenIdle /\ LerpIdle /\ GestIdle /\ ViewIdle

NextPlace ==
    \/ PhotoBranch
    \/ \E c \in Candidates : Attempt(c)
    \/ \E f \in IF validPos THEN {Vec(0, 0, 0)} ELSE FallbackPositions : AfterWhile(f)
    \/ PlaceReturn

\* The steps of generateTreeData are taken one after the other until it
\* returns: weak fairness of its next step.
InitGest == GestInit /\ SessionIdle /\ GenIdle /\ LerpIdle /\ PlaceIdle /\ ViewIdle

NextGest == CalculateGestureCall

SpecGest == InitGest /\ [][NextGest]_vars

InitView == ViewInit /\ SessionIdle /\ GenIdle /\ LerpIdle /\ PlaceIdle /\ GestIdle

NextView ==
    \/ \E d \in 0..MaxDelta : ViewFrame(d)
    \/ \E g \in ViewGestures : ViewRerender(g)

SpecView == InitView /\ [][NextView]_vars

SpecPlace == InitPlace /\ [][NextPlace]_vars /\ WF_vars(NextPlace)

-----------------------------------------------------------------------------
(* Claims about the session *)

\* A detect frame step has just run.
FrameStep == frames' = frames + 1

\* C1: the layout mode is the open flag of the gesture signal, and a step that
\* leaves detected = false (the hand was lost) keeps the mode it had.
C1_ModeHeldWhenHandLost ==
    [][ /\ IsUnleashedProp' = gestureState'.isOpen
        /\ ~gestureState'.isDetected => IsUnleashedProp' = IsUnleashedProp ]_vars

\* C2: a detect frame step in which visionService.detect returned null leaves
\* the gesture signal (detected, open, position) as it was.
C2_NullResultKeepsGesture ==
    [][ (FrameStep /\ lastReturn' = "null") => gestureState' = gestureState ]_vars

\* C2 witness: detect returned null in the latest frame step while the signal
\* held a detected open hand away from the centre.
C2_Witness ==
    /\ lastReturn = "null"
    /\ gestureState.isDetected
    /\ gestureState.isOpen
    /\ gestureState.position.x # 0

\* C3: detected is false exactly when no non-null result has arrived or the
\* latest non-null result held zero hands; a zero-hands result keeps open and
\* position; only a zero-hands result turns detected off.
C3_DetectedFalseIffNoHandInLatestResult ==
    [][ /\ (gestureState'.isDetected = FALSE) <=> (lastNonNull' \in {"none", "zero"})
        /\ (FrameStep /\ lastReturn' = "zero") =>
              gestureState' = [gestureState EXCEPT !.isDetected = FALSE]
        /\ (gestureState.isDetected /\ ~gestureState'.isDetected) =>
              (FrameStep /\ lastReturn' = "zero") ]_vars

\* C4: a frame step whose result holds a hand of fewer than 21 keypoints ends
\* without an exception and with detected = false.
C4_MalformedHandIsNoHand ==
    [][ (FrameStep /\ lastReturn' = "malformed") =>
            (~uncaught' /\ ~gestureState'.isDetected) ]_vars

\* C5 as stated: detectForVideo runs at most once per video timestamp, whatever
\* the order of the timestamps.
C5_OncePerTimestamp == \A t \in Times : detectorCalls[t] <= 1

\* C5 amended: detectForVideo runs only for a time other than the one processed
\* last, a call for the time processed last returns null without running it,
\* and while the times never decrease it runs at most once per timestamp.
C5_OncePerRunOfEqualTimestamps ==
    /\ [][ /\ \A t \in Times :
                detectorCalls'[t] # detectorCalls[t] =>
                    /\ t # lastVideoTime
                    /\ lastVideoTime' = t
                    /\ detectorCalls'[t] = detectorCalls[t] + 1
           /\ (FrameStep /\ lastReturn' # "notCalled" /\ lastTime' = lastVideoTime) =>
                    (lastReturn' = "null" /\ detectorCalls' = detectorCalls) ]_vars
    /\ [](timesMonotone => \A t \in Times : detectorCalls[t] <= 1)

\* C5 witness: with times that never decreased, the latest call repeated the
\* time processed last and got null, the detector having run once for it.
C5_Witness ==
    /\ timesMonotone
    /\ handLandmarker # 0
    /\ lastReturn = "null"
    /\ lastTime = lastVideoTime
    /\ detectorCalls[lastTime] = 1

\* C6: initialize() never throws; once a failed call has returned to the
\* running session, loading is cleared; while no landmarker exists every detect call returns null, the
\* detector never runs and the gesture signal keeps its initial value.
C6_InitFailureDegrades ==
    /\ \A c \in InitCalls : initPc[c] # "threw"
    /\ \A c \in InitCalls :
          (mounted /\ initPc[c] = "done" /\ initResult[c] = "failed") => ~loading
    /\ handLandmarker = 0 =>
          /\ gestureState = InitialGesture
          /\ lastReturn \in {"notCalled", "null"}
          /\ \A t \in Times : detectorCalls[t] = 0

\* C6 witness: the first call failed and returned, no landmarker exists, and
\* detect has been called (and returned null) in a later frame step.
C6_Witness ==
    /\ initPc[1] = "done"
    /\ initResult[1] = "failed"
    /\ handLandmarker = 0
    /\ ~loading
    /\ frames >= 2
    /\ lastReturn = "null"

-----------------------------------------------------------------------------
(* Claims about generateTreeData *)

KindIndices(kind) == {k \in 1..Len(data) : data[k].type = kind}
\* The indices (as the code counts them, from 0) of the photo elements.
PhotoIdxs == {data[k].id : k \in KindIndices("photo")}

\* C8: the list holds one element per index passed, the element at index k
\* having id k; the result holds exactly PARTICLE_COUNT elements, ids
\* 0..PARTICLE_COUNT-1.
C8_ExactlyNElementsIdIsIndex ==
    /\ Len(data) = i
    /\ \A k \in 1..Len(data) : data[k].id = k - 1
    /\ gpc = "done" =>
          /\ Len(data) = PARTICLE_COUNT
          /\ {data[k].id : k \in 1..Len(data)} = 0..(PARTICLE_COUNT - 1)

\* C8 witness: a finished run whose list holds all three kinds.
C8_Witness ==
    /\ gpc = "done"
    /\ Len(data) = PARTICLE_COUNT
    /\ \A kind \in {"photo", "light", "ornament"} : KindIndices(kind) # {}

\* C9: every photo index lies strictly inside the margins, and two photo
\* indices are at least PhotoGap apart.
C9_PhotoIndicesSpaced ==
    /\ \A p \in PhotoIdxs : PhotoMargin < p /\ p < PARTICLE_COUNT - PhotoMargin
    /\ \A p, q \in PhotoIdxs : p < q => q - p >= PhotoGap

\* C9 witness: a finished run with a photo at the first eligible index and the
\* next photo as close after it as the code allows.
C9_Witness ==
    /\ gpc = "done"
    /\ PhotoMargin + 1 \in PhotoIdxs
    /\ PhotoMargin + 1 + PhotoGap + 1 \in PhotoIdxs

\* C10: at every point of the run the list holds at most maxLights lights, and
\* lightCount is their number.
C10_LightsAtMostMax ==
    /\ Cardinality(KindIndices("light")) <= maxLights
    /\ lightCount = Cardinality(KindIndices("light"))

\* C10 witness: a finished run in which lightChance reached 1 and the list
\* holds maxLights lights.
C10_Witness ==
    /\ gpc = "done"
    /\ sawChanceOne
    /\ Cardinality(KindIndices("light")) = maxLights

-----------------------------------------------------------------------------
(* Claims about the Particle position step *)

Abs(n) == IF n < 0 THEN -n ELSE n

\* Every lerp of a reachable state is exact in the position unit.
LerpExact == (Abs(lastTarget - prevPosition) * lastDelta * LerpRate) % TimeDen = 0

\* C7: after a useFrame step the live position is the clamped approach of the
\* position before it: not further from the target, not past it, and on it
\* when 3 * delta >= 1.
C7_ClampedApproach ==
    steps > 0 =>
        /\ positionRef = LerpClamped(prevPosition, lastTarget, lastDelta * LerpRate, TimeDen)
        /\ Abs(lastTarget - positionRef) <= Abs(lastTarget - prevPosition)
        /\ (prevPosition <= lastTarget => positionRef <= lastTarget)
        /\ (prevPosition >= lastTarget => positionRef >= lastTarget)
        /\ (lastDelta * LerpRate >= TimeDen => positionRef = lastTarget)

-----------------------------------------------------------------------------
(* Claims about the unleashed position of the photos *)

\* The photos whose position the while loop accepted.
AcceptedPhotos == {k \in 1..Len(placements) : placements[k].accepted}

\* C11: two photos whose unleashed positions were both accepted by the
\* rejection loop (neither set by the fallback) are at least MIN_PHOTO_DIST
\* apart.
C11_AcceptedPhotosApart ==
    \A j \in AcceptedPhotos, k \in AcceptedPhotos :
        j # k => DistSq(placements[j].randomPos, placements[k].randomPos)
                    >= MIN_PHOTO_DIST * MIN_PHOTO_DIST

\* C11 witness: generateTreeData returned with two accepted photos exactly
\* MIN_PHOTO_DIST apart, the second one accepted after a rejected candidate.
C11_Witness ==
    /\ ppc = "done"
    /\ attempts > 1
    /\ validPos
    /\ \E j \in AcceptedPhotos, k \in AcceptedPhotos :
          /\ j < k
          /\ DistSq(placements[j].randomPos, placements[k].randomPos)
                = MIN_PHOTO_DIST * MIN_PHOTO_DIST

\* The photos whose position is the fallback.
FallbackPhotos == {k \in 1..Len(placements) : ~placements[k].accepted}

\* C17: the while loop draws at most 50 candidates for a photo; the fallback
\* is taken exactly when 50 candidates were drawn and none was valid, and it
\* is a point of the ring of radius 18 at height 0; generateTreeData returns.
C17_AttemptsCappedThenFallback ==
    /\ [](attempts <= MaxAttempts)
    /\ [](\A k \in FallbackPhotos :
             /\ placements[k].randomPos.y = 0
             /\ placements[k].randomPos.x * placements[k].randomPos.x
                  + placements[k].randomPos.z * placements[k].randomPos.z
                = FallbackRadius * FallbackRadius)
    /\ [][ (ppc = "while" /\ ppc' = "for") =>
              /\ (validPos \/ attempts = MaxAttempts)
              /\ (FallbackPhotos' # FallbackPhotos) = ~validPos ]_vars
    /\ <>(ppc = "done")

\* C17 witness: generateTreeData returned after 50 colliding candidates sent a
\* photo to the fallback ring.
C17_Witness ==
    /\ ppc = "done"
    /\ FallbackPhotos # {}
    /\ attempts = MaxAttempts
    /\ ~validPos

-----------------------------------------------------------------------------
(* Claims about the photos of the layout *)

\* The places in data of the photo elements.
PhotoElems == KindIndices("photo")

\* C12: with an empty photo list the photo elements are still generated, with
\* kind photo and no photo reference, and each is rendered as a photo (the
\* frame with its placeholder), not as another kind.
C12_EmptyListPhotosRenderedAsPhotos ==
    photoList = <<>> =>
        \A k \in PhotoElems :
            /\ data[k].photoUrl = "undefined"
            /\ RenderedAs(data[k]) = "photoFrame"

\* How many photo elements come before the element at k.
PhotoRank(k) == Cardinality({j \in PhotoElems : j < k})
\* How many photo elements carry the entry e of the photo list.
PhotoUses(e) == Cardinality({k \in PhotoElems : data[k].photoUrl = photoList[e]})

\* C20: with a non-empty photo list of length L the k-th photo element
\* (counting from 0) carries entry k mod L, so the use counts of two entries
\* differ by at most one.
C20_PhotosRoundRobin ==
    Len(photoList) > 0 =>
        /\ \A k \in PhotoElems :
              data[k].photoUrl = photoList[(PhotoRank(k) % Len(photoList)) + 1]
        /\ \A e \in 1..Len(photoList), f \in 1..Len(photoList) :
              PhotoUses(e) - PhotoUses(f) <= 1

\* C20 witness: generateTreeData returned more photo elements than the list
\* has entries, so the list wrapped around.
C20_Witness ==
    /\ gpc = "done"
    /\ Len(photoList) > 1
    /\ Cardinality(PhotoElems) > Len(photoList)
    /\ PhotoUses(1) = 2
    /\ PhotoUses(2) = 1

-----------------------------------------------------------------------------
(* Claims about the start and the end of the detection loop *)

\* C13: once the session has ended (the effect cleanup ran) no detect callback
\* is pending and no detect frame step runs.
C13_NoFrameStepAfterSessionEnd ==
    [][ ~mounted' => (~rafPending' /\ frames' = frames) ]_vars

\* C13 witness: the session ended while the detection loop was running with
\* frame steps left to take.
C13_Witness ==
    /\ ~mounted
    /\ frames > 0
    /\ frames < MaxFrames
    /\ ~uncaught

\* C16: the detection loop starts only after a detector initialization has
\* completed and the camera stream is there: while loading is true no detect
\* callback is scheduled, no detect frame step has run and visionService.detect
\* has not been called.
C16_NoDetectionWhileLoading ==
    (rafPending \/ frames > 0 \/ lastReturn # "notCalled") =>
        /\ ~loading
        /\ cameraPermission
        /\ \E c \in InitCalls : initPc[c] = "done"

\* C16 witness: the loop runs and has called visionService.detect after an
\* initialization that failed.
C16_Witness ==
    /\ rafPending
    /\ lastReturn # "notCalled"
    /\ handLandmarker = 0
    /\ \E c \in InitCalls : initPc[c] = "done" /\ initResult[c] = "failed"

-----------------------------------------------------------------------------
(* Claims about calculateGesture *)

\* The squared distance in the image plane, and in space, between keypoints 4
\* and 8 of the first hand of the argument.
TipPlaneDistSq ==
    LET a == gLandmarks[1][5]
        b == gLandmarks[1][9]
    IN  (a.x - b.x) * (a.x - b.x) + (a.y - b.y) * (a.y - b.y)
TipDepthSq ==
    LET a == gLandmarks[1][5]
        b == gLandmarks[1][9]
    IN  (a.z - b.z) * (a.z - b.z)

\* C14: calculateGesture returns open exactly when the distance, on x and y
\* only, between keypoints 4 and 8 of the first hand is strictly greater than
\* 0.08; a distance of exactly 0.08 or less is closed.
C14_OpenIffPlaneDistanceAboveThreshold ==
    (gDone /\ Len(gLandmarks) > 0) =>
        /\ TipPlaneDistSq > OpenThreshold * OpenThreshold => gResult.isOpen
        /\ TipPlaneDistSq <= OpenThreshold * OpenThreshold => ~gResult.isOpen

\* C14 witness: the call returned closed for tips exactly 0.08 apart in the
\* image plane and far apart in depth.
C14_Witness ==
    /\ gDone
    /\ Len(gLandmarks) > 0
    /\ TipPlaneDistSq = OpenThreshold * OpenThreshold
    /\ TipDepthSq > OpenThreshold * OpenThreshold
    /\ ~gResult.isOpen

-----------------------------------------------------------------------------
(* Claims about the frame step of a Particle *)

\* C15: a frame step with a frame time of 0 leaves the live position of the
\* element where it was, in both modes and for every kind.
C15_ZeroDeltaKeepsPosition ==
    (steps > 0 /\ lastDelta = 0) => positionRef = prevPosition

\* C15 witness: a frame step with frame time 0 has run for a photo in the
\* unleashed mode while the photo was away from its target.
C15_Witness ==
    /\ steps > 0
    /\ lastDelta = 0
    /\ isUnleashed
    /\ element.type = "photo"
    /\ positionRef # TargetPos(isUnleashed)
    /\ positionRef # element.initialPos

\* C18: no step (frame step or render) changes the element's data (id, kind,
\* assembled and unleashed position, scale, colour, photo reference), and the
\* layout is generated once.
C18_ElementDataImmutable ==
    /\ [][element' = element /\ generations' = generations]_vars
    /\ [](generations = 1 /\ element \in Elements)

\* C18 witness: frame steps have moved the live position and the live
\* rotation of the element away from their initial values.
C18_Witness ==
    /\ steps = MaxSteps
    /\ generations = 1
    /\ positionRef # element.initialPos
    /\ rotationX # 0

-----------------------------------------------------------------------------
(* Claims about the view *)

-----------------------------------------------------------------------------
(* Claims about the number of lights *)

\* C21: throughout the loop the lights still to place are no more than the
\* indices still to come, maxLights - lightCount <= PARTICLE_COUNT - i; when
\* the two are equal the element of the iteration is a light; so the result
\* holds exactly maxLights lights, whatever the random draws.
C21_ExactlyMaxLights ==
    /\ [](gpc \in {"loop", "done"} => maxLights - lightCount <= PARTICLE_COUNT - i)
    /\ [][ (i' = i + 1 /\ maxLights - lightCount = PARTICLE_COUNT - i) =>
              /\ lightCount' = lightCount + 1
              /\ data'[Len(data')].type = "light" ]_vars
    /\ [](gpc = "done" => Cardinality(KindIndices("light")) = maxLights)

\* C21 witness: generateTreeData returned maxLights lights, the last of them
\* forced by a light chance of 1, in a run that also placed a photo and took
\* no light while the chance was below 1 at the first index.
C21_Witness ==
    /\ gpc = "done"
    /\ sawChanceOne
    /\ Cardinality(KindIndices("light")) = maxLights
    /\ KindIndices("photo") # {}
    /\ data[Len(data)].type = "light"
    /\ data[1].type = "ornament"

-----------------------------------------------------------------------------
(* Claims about the successor of a detect frame step *)

\* C22: while the session runs, every detect frame step leaves exactly one
\* detect callback scheduled, whatever visionService.detect returned or threw
\* in it (no result, zero hands, a valid hand, a malformed hand), so the loop
\* does not halt by itself.
C22_EveryFrameStepSchedulesSuccessor ==
    [][ (FrameStep /\ mounted) => rafPending' ]_vars

-----------------------------------------------------------------------------
(* Claims about VisionService.initialize *)

\* The initialize() calls whose createFromOptions produced a landmarker.
CreatingCalls == {c \in InitCalls : initResult[c] = "created"}

\* C23: whatever the number and the interleaving of the initialize() calls,
\* a HandLandmarker is created at most once, and the one stored is never
\* replaced by another.
C23_LandmarkerCreatedOnce ==
    /\ [](Cardinality(CreatingCalls) <= 1)
    /\ [][handLandmarker # 0 => handLandmarker' = handLandmarker]_vars

====
